---- MODULE Spec2Model ----
(***************************************************************************)
(* A model of simulate.py: the polling-place simulation.                   *)
(*                                                                         *)
(*   Voter, VotingBooths (queue.PriorityQueue), Precinct.simulate,         *)
(*   find_avg_wait_time, find_percent_split_ticket.                        *)
(*                                                                         *)
(* Time is kept on an integer grid of minutes.  random.random() is a       *)
(* value u in 0..MaxRaw standing for the float u / (MaxRaw + 1) in [0,1);  *)
(* the values the Mersenne Twister hands out are arbitrary, so every draw  *)
(* is a free choice, or, where the seed matters, the next value of an      *)
(* arbitrary stream fixed for the seed.  Rates are in hundredths per       *)
(* minute.                                                                 *)
(***************************************************************************)
EXTENDS Integers, Sequences, FiniteSets

\* ------------------------------------------------------------------ bounds

\* The largest max_num_voters of a precinct.
MaxVoters == 3

\* The largest num_booths of a precinct.
MaxBooths == 2

\* random.random() takes the values 0..MaxRaw.
MaxRaw == 2

Raw == 0..MaxRaw

\* The denominator of a raw draw: u stands for u / RawDen.
RawDen == MaxRaw + 1

\* ------------------------------------------------------ optional values

\* Python's None, and a value that is set.
None == <<>>

Some(x) == <<x>>

IsNone(o) == o = <<>>

Val(o) == o[1]

\* ---------------------------------------------------------------- Voter

\* Voter.__init__ with start_time defaulting to the arrival.
Voter_started(arrival_time, voting_duration) ==
    [arrival_time |-> arrival_time, voting_duration |-> voting_duration,
     start_time |-> Some(arrival_time), end_time |-> None]

\* Voter.__init__(arrival_time, voting_duration): both times unset.
Voter(arrival_time, voting_duration) ==
    [arrival_time |-> arrival_time, voting_duration |-> voting_duration,
     start_time |-> None, end_time |-> None]

\* update_startend_times with the voting duration left out of end_time.
update_startend_times_no_duration(voter, start_time) ==
    [voter EXCEPT !.start_time = Some(start_time),
                  !.end_time = Some(start_time)]

\* Voter.update_startend_times(start_time).
update_startend_times(voter, start_time) ==
    [voter EXCEPT !.start_time = Some(start_time),
                  !.end_time = Some(start_time + voter.voting_duration)]

\* --------------------------------------------------------- VotingBooths

\* heappush that keeps the order of insertion: a FIFO queue.
heappush_fifo(heap, item) == Append(heap, item)

\* heapq.heappush on a heap kept as an ascending sequence.
RECURSIVE heappush(_, _)
heappush(heap, item) ==
    IF heap = <<>> THEN <<item>>
    ELSE IF item <= Head(heap) THEN <<item>> \o heap
    ELSE <<Head(heap)>> \o heappush(Tail(heap), item)

\* VotingBooths.__init__: queue.PriorityQueue(num_booths), empty.
VotingBooths(num_booths) == [num_booths |-> num_booths, booths |-> <<>>]

\* full with its answer inverted.
full_inverted(q) == ~(0 < q.num_booths /\ q.num_booths <= Len(q.booths))

\* VotingBooths.full: PriorityQueue.full is 0 < maxsize <= qsize, so a
\* maxsize of 0 or less is a queue that is never full.
full(q) == 0 < q.num_booths /\ q.num_booths <= Len(q.booths)

\* VotingBooths.put blocks while the queue is full.
put_ready(q) == ~full(q)

put(q, priority) == [q EXCEPT !.booths = heappush(@, priority)]

\* VotingBooths.get blocks while the queue is empty; it removes the least.
get_ready(q) == q.booths # <<>>

\* get_value taking the greatest free-time.
get_value_latest(q) == q.booths[Len(q.booths)]

\* The free-time get returns: the least.
get_value(q) == Head(q.booths)

get_rest(q) == [q EXCEPT !.booths = Tail(@)]

\* -------------------------------------------------------------- random

\* 100 * -log(1 - u/RawDen) on the grid: 0 at u = 0 and increasing in u.
NegLog(u) == 40 * u

\* expovariate with the sign of the logarithm lost: log(1 - u) / lambd.
expovariate_unnegated(lambd, u) == (0 - NegLog(u)) \div lambd

\* random.expovariate(lambd) = -log(1 - random()) / lambd, lambd # 0,
\* from the raw draw u; lambd is in hundredths per minute.
expovariate(lambd, u) == NegLog(u) \div lambd

\* random.random() <= percent_straight_ticket, the percentage in tenths.
is_straight(u, percent_straight_ticket) ==
    u * 10 <= percent_straight_ticket * RawDen

\* ------------------------------------------------------------- Precinct

\* Precinct.__init__.
Precinct(hours_open, max_num_voters, num_booths, arrival_rate, voting_duration_rate) ==
    [minutes_open |-> hours_open * 60, max_num_voters |-> max_num_voters,
     num_booths |-> num_booths, arrival_rate |-> arrival_rate,
     voting_duration_rate |-> voting_duration_rate]

\* The arguments of one call of simulate.
SimArgs(percent_straight_ticket, straight_ticket_duration, s) ==
    [percent_straight_ticket |-> percent_straight_ticket,
     straight_ticket_duration |-> straight_ticket_duration, seed |-> s]

\* The while loop's condition letting one voter too many in.
more_voters_off_by_one(p, vs) == Len(vs) <= p.max_num_voters

\* The while loop's condition (line 95).
more_voters(p, vs) == Len(vs) + 1 <= p.max_num_voters

\* The draws one iteration of the while loop takes from the stream rng:
\* the classification draw, the duration draw of a split-ticket voter only,
\* and the gap draw.
draws_taken(a, rng) ==
    IF is_straight(rng[1], a.percent_straight_ticket) THEN 2 ELSE 3

\* Whether an iteration of the while loop divides by zero in expovariate.
draw_fails(p, a, rng) ==
    \/ ~is_straight(rng[1], a.percent_straight_ticket)
         /\ p.voting_duration_rate = 0
    \/ p.arrival_rate = 0

\* voting_duration of lines 96-99.
voting_duration(p, a, rng) ==
    IF is_straight(rng[1], a.percent_straight_ticket)
    THEN a.straight_ticket_duration
    ELSE expovariate(p.voting_duration_rate, rng[2])

\* gap with the clock stepping back: cur_time -= gap.
gap_subtracted(p, a, rng) ==
    0 - expovariate(p.arrival_rate, rng[draws_taken(a, rng)])

\* gap of line 100: the draw after the duration's.
gap(p, a, rng) == expovariate(p.arrival_rate, rng[draws_taken(a, rng)])

\* start_of with every voter starting on arrival, booth or no booth.
start_of_on_arrival(q, voter) == voter.arrival_time

\* The time a voter starts: at arrival while a booth is free, else when the
\* first booth is vacated (lines 109-114).
start_of(q, voter) ==
    IF ~full(q) THEN voter.arrival_time
    ELSE IF voter.arrival_time >= get_value(q) THEN voter.arrival_time
    ELSE get_value(q)

\* booth_after with the vacated booth's free-time left in the pool.
booth_after_no_get(q, voter) == put(q, Val(voter.end_time))

\* The pool after the voter's departure time is recorded (lines 111-115).
booth_after(q, voter) ==
    IF ~full(q) THEN put(q, Val(voter.end_time))
    ELSE put(get_rest(q), Val(voter.end_time))

\* The streams a run can draw from: three values for each candidate voter.
Streams(p) == [1..3 * p.max_num_voters -> Raw]

\* The while loop (lines 95-105) run on the stream rng, from the voters vs
\* recorded so far and the clock t; the rates are not 0.
RECURSIVE generate(_, _, _, _, _)
generate(p, a, vs, t, rng) ==
    IF ~more_voters(p, vs) THEN vs
    ELSE IF t + gap(p, a, rng) > p.minutes_open THEN vs
    ELSE generate(p, a,
                  Append(vs, Voter(t + gap(p, a, rng),
                                   voting_duration(p, a, rng))),
                  t + gap(p, a, rng),
                  SubSeq(rng, draws_taken(a, rng) + 1, Len(rng)))

\* The for loop (lines 108-115) from its k-th iteration on.
RECURSIVE assign(_, _, _)
assign(vs, b, k) ==
    IF k = Len(vs) THEN vs
    ELSE LET voter == update_startend_times(vs[k + 1], start_of(b, vs[k + 1]))
         IN assign([vs EXCEPT ![k + 1] = voter], booth_after(b, voter), k + 1)

\* Precinct.simulate as a whole, on the stream the seed gives.
simulate(p, a, rng) ==
    assign(generate(p, a, <<>>, 0, rng), VotingBooths(p.num_booths), 0)

\* The precincts find_avg_wait_time is run on: one booth, two voters at most.
TrialPrecincts == {Precinct(1, 2, 1, ar, 1) : ar \in {1, 2}}

\* simulate tabulated once over these precincts, every percentage of the
\* sweep and every stream: the pairs of (precinct, percentage, duration) and
\* a list simulate returns for them.
simulate_table ==
    UNION {{<<k, simulate(k[1], SimArgs(k[2], k[3], 0), rng)>> :
              rng \in Streams(k[1])} :
             k \in TrialPrecincts \X (0..10) \X {20}}

\* The lists simulate(p, a) can return, over the streams of all seeds.
simulate_results(p, a) ==
    {e[2] : e \in {x \in simulate_table :
                     x[1] = <<p, a.percent_straight_ticket,
                              a.straight_ticket_duration>>}}

\* ---------------------------------------------------- find_avg_wait_time

\* A float that is a quotient of integers, in lowest terms.
RECURSIVE gcd(_, _)
gcd(m, n) == IF n = 0 THEN m ELSE gcd(n, m % n)

\* Python's n / d for n >= 0 and d > 0.
true_div(n, d) == [num |-> n \div gcd(n, d), den |-> d \div gcd(n, d)]

\* x < y and x > y on such floats.
less(x, y) == x.num * y.den < y.num * x.den

\* sum() of a list of integers.
RECURSIVE sum(_)
sum(xs) == IF xs = <<>> THEN 0 ELSE Head(xs) + sum(Tail(xs))

\* wait_times of lines 190-193.
wait_times(vs) ==
    [i \in 1..Len(vs) |-> Val(vs[i].start_time) - vs[i].arrival_time]

\* sum(wait_times) / len(wait_times) of line 194, for a trial with voters.
avg_wait_time(vs) == true_div(sum(wait_times(vs)), Len(vs))

\* list.sort(): ascending.
RECURSIVE insort(_, _)
insort(xs, x) ==
    IF xs = <<>> THEN <<x>>
    ELSE IF less(x, Head(xs)) THEN <<x>> \o xs
    ELSE <<Head(xs)>> \o insort(Tail(xs), x)

RECURSIVE sort(_)
sort(xs) == IF xs = <<>> THEN <<>> ELSE insort(sort(Tail(xs)), Head(xs))

\* median_index taking the lower of the two middle positions.
median_index_lower(n) == ((n - 1) \div 2) + 1

\* The position ntrials // 2 of line 199, counted from 1.
median_index(n) == (n \div 2) + 1

\* find_avg_wait_time as a whole for ntrials >= 1, trials[i] the list
\* simulate returns for the i-th seed: the median, or the exception that ends
\* the call.
find_avg_wait_time(n, trials) ==
    IF \E i \in 1..n : trials[i] = <<>>
    THEN [raised |-> "ZeroDivisionError", value |-> None]
    ELSE [raised |-> "",
          value |-> Some(sort([i \in 1..n |-> avg_wait_time(trials[i])])
                           [median_index(n)])]

\* ------------------------------------------- find_percent_split_ticket

\* The sweep has 11 points: range(11).
SweepPoints == 11

\* enumerate(range(11)[::-1]): the straight-ticket tenths at index split.
straight_at(i) == (SweepPoints - 1) - i

\* exceeds with >= for >.
exceeds_or_equals(w, target) == w.num >= target * w.den

\* avg_wait > target_wait_time (line 226).
exceeds(w, target) == w.num > target * w.den

\* last_point one index late.
last_point_off_by_one(i) == i = 11

\* split == 10 (line 228).
last_point(i) == i = 10

\* ---------------------------------------------------------------- state

VARIABLES
    precinct,          \* the Precinct object simulate runs on
    args,              \* the arguments of the latest call of simulate
    pc,                \* where simulate is
    voters,            \* simulate's list of voters
    cur_time,          \* simulate's clock
    booth,             \* simulate's VotingBooths
    assigned,          \* how many voters the for loop has been through
    ntrials,           \* find_avg_wait_time: the number of trials
    initial_seed,      \* find_avg_wait_time: the first seed
    seed,              \* find_avg_wait_time: the next trial's seed
    avg_wait_times,    \* find_avg_wait_time: the list of the trials' means
    seeds_used,        \* the seeds simulate has been called with, in order
    avg_pc,            \* where find_avg_wait_time is
    median,            \* what find_avg_wait_time returns
    target_wait_time,  \* find_percent_split_ticket: the target
    split,             \* find_percent_split_ticket: the loop's index
    calls,             \* the straight-ticket tenths evaluated, in order
    avg_wait,          \* find_percent_split_ticket: the latest median
    any_exceeded,      \* whether an evaluated point's median was above the target
    sweep_pc,          \* where find_percent_split_ticket is
    found,             \* what find_percent_split_ticket returns
    twister,           \* the stream of raw draws each seed gives
    rnd,               \* the random module's state: the seed and the position
    run,               \* the calls of simulate that draw from the module
    printed            \* what cmd prints in its target-wait-time branch

cfgVars == <<precinct, args>>

simVars == <<pc, voters, cur_time, booth, assigned>>

avgVars == <<ntrials, initial_seed, seed, avg_wait_times, seeds_used, avg_pc,
             median>>

sweepVars == <<target_wait_time, split, calls, avg_wait, any_exceeded,
               sweep_pc, found>>

rndVars == <<twister, rnd, run>>

cmdVars == <<printed>>

vars == <<cfgVars, simVars, avgVars, sweepVars, rndVars, cmdVars>>

\* simulate is entered (lines 91-93): no voters, the clock at 0.
SimEntry ==
    /\ pc = "generate"
    /\ voters = <<>>
    /\ cur_time = 0
    /\ booth = None
    /\ assigned = 0

\* simulate is not running.
SimIdle ==
    /\ pc = "idle"
    /\ voters = <<>>
    /\ cur_time = 0
    /\ booth = None
    /\ assigned = 0

\* find_avg_wait_time is not running.
AvgIdle ==
    /\ ntrials = 0
    /\ initial_seed = 0
    /\ seed = 0
    /\ avg_wait_times = <<>>
    /\ seeds_used = <<>>
    /\ avg_pc = "idle"
    /\ median = None

\* find_percent_split_ticket is not running.
SweepIdle ==
    /\ target_wait_time = 0
    /\ split = 0
    /\ calls = <<>>
    /\ avg_wait = None
    /\ any_exceeded = FALSE
    /\ sweep_pc = "idle"
    /\ found = None

\* No call of simulate through the random module is modelled.
RndIdle ==
    /\ twister = <<>>
    /\ rnd = None
    /\ run = <<>>

\* cmd is not running.
CmdIdle == printed = None

\* ------------------------------------------------------------- simulate

\* The configurations of the interface: hours_open, num_booths and the rates
\* positive, the durations positive; max_num_voters may be 0.
HoursOpen == {1}

ArrivalRates == {1, 2}

DurationRates == {1}

Percents == {0, 10}

StraightDurations == {20}

Seeds == {0}

Init ==
    /\ precinct \in {Precinct(h, m, n, ar, dr) :
                       h \in HoursOpen, m \in 0..MaxVoters, n \in 1..MaxBooths,
                       ar \in ArrivalRates, dr \in DurationRates}
    /\ args \in {SimArgs(pct, sd, s) :
                   pct \in Percents, sd \in StraightDurations, s \in Seeds}
    /\ SimEntry
    /\ AvgIdle
    /\ SweepIdle
    /\ RndIdle
    /\ CmdIdle

\* One iteration of the while loop (lines 95-105): the next voter arrives
\* before closing and is recorded.
GenVoter ==
    /\ pc = "generate"
    /\ more_voters(precinct, voters)
    /\ \E rng \in [1..3 -> Raw] :
         /\ ~draw_fails(precinct, args, rng)
         /\ cur_time + gap(precinct, args, rng) <= precinct.minutes_open
         /\ cur_time' = cur_time + gap(precinct, args, rng)
         /\ voters' = Append(voters,
                             Voter(cur_time + gap(precinct, args, rng),
                                   voting_duration(precinct, args, rng)))
    /\ UNCHANGED <<pc, booth, assigned>>
    /\ UNCHANGED <<cfgVars, avgVars, sweepVars>>
    /\ UNCHANGED <<rndVars, cmdVars>>

\* The iteration that breaks (lines 102-103): the voter would arrive after
\* closing; the pool is created (line 107).
GenBreak ==
    /\ pc = "generate"
    /\ more_voters(precinct, voters)
    /\ \E rng \in [1..3 -> Raw] :
         /\ ~draw_fails(precinct, args, rng)
         /\ cur_time + gap(precinct, args, rng) > precinct.minutes_open
         /\ cur_time' = cur_time + gap(precinct, args, rng)
    /\ pc' = "assign"
    /\ booth' = Some(VotingBooths(precinct.num_booths))
    /\ UNCHANGED <<voters, assigned>>
    /\ UNCHANGED <<cfgVars, avgVars, sweepVars>>
    /\ UNCHANGED <<rndVars, cmdVars>>

\* The iteration in which expovariate divides by a rate of 0 (lines 99-100).
GenRaise ==
    /\ pc = "generate"
    /\ more_voters(precinct, voters)
    /\ \E rng \in [1..3 -> Raw] : draw_fails(precinct, args, rng)
    /\ pc' = "ZeroDivisionError"
    /\ UNCHANGED <<voters, cur_time, booth, assigned>>
    /\ UNCHANGED <<cfgVars, avgVars, sweepVars>>
    /\ UNCHANGED <<rndVars, cmdVars>>

\* The while loop ends on its condition; the pool is created (line 107).
GenEnd ==
    /\ pc = "generate"
    /\ ~more_voters(precinct, voters)
    /\ pc' = "assign"
    /\ booth' = Some(VotingBooths(precinct.num_booths))
    /\ UNCHANGED <<voters, cur_time, assigned>>
    /\ UNCHANGED <<cfgVars, avgVars, sweepVars>>
    /\ UNCHANGED <<rndVars, cmdVars>>

\* One iteration of the for loop (lines 108-115).  get is called on a full
\* queue only, put on one that is not full: neither blocks, or the step is
\* not taken.
AssignVoter ==
    /\ pc = "assign"
    /\ assigned < Len(voters)
    /\ LET b == Val(booth)
           voter == update_startend_times(voters[assigned + 1],
                                          start_of(b, voters[assigned + 1]))
       IN /\ full(b) => get_ready(b)
          /\ put_ready(IF full(b) THEN get_rest(b) ELSE b)
          /\ voters' = [voters EXCEPT ![assigned + 1] = voter]
          /\ booth' = Some(booth_after(b, voter))
    /\ assigned' = assigned + 1
    /\ UNCHANGED <<pc, cur_time>>
    /\ UNCHANGED <<cfgVars, avgVars, sweepVars>>
    /\ UNCHANGED <<rndVars, cmdVars>>

\* return voters (line 117).
Return ==
    /\ pc = "assign"
    /\ assigned = Len(voters)
    /\ pc' = "return"
    /\ UNCHANGED <<voters, cur_time, booth, assigned>>
    /\ UNCHANGED <<cfgVars, avgVars, sweepVars>>
    /\ UNCHANGED <<rndVars, cmdVars>>

Next == GenVoter \/ GenBreak \/ GenEnd \/ AssignVoter \/ Return

\* simulate on a configuration of the interface.
Spec == Init /\ [][Next]_vars

\* simulate is sequential code: while a step of it can be taken, one is.
SpecFair == Init /\ [][Next]_vars /\ WF_vars(Next)

\* ------------------------------------------- simulate, any configuration

\* What Precinct.__init__ and simulate accept: any numbers at all.
AnyBooths == {0, 1}

AnyRates == {-1, 0, 1}

AnyStraightDurations == {-20, 20}

InitConfig ==
    /\ precinct \in {Precinct(h, m, n, ar, dr) :
                       h \in HoursOpen, m \in 0..MaxVoters, n \in AnyBooths,
                       ar \in AnyRates, dr \in AnyRates}
    /\ args \in {SimArgs(pct, sd, s) :
                   pct \in Percents, sd \in AnyStraightDurations, s \in Seeds}
    /\ SimEntry
    /\ AvgIdle
    /\ SweepIdle
    /\ RndIdle
    /\ CmdIdle

NextConfig == Next \/ GenRaise

SpecConfig == InitConfig /\ [][NextConfig]_vars

\* ---------------------------------------------------- find_avg_wait_time

\* The largest ntrials.
MaxTrials == 3

InitAvg ==
    /\ precinct \in TrialPrecincts
    /\ args \in {SimArgs(0, sd, 0) : sd \in StraightDurations}
    /\ SimIdle
    /\ ntrials \in 0..MaxTrials
    /\ initial_seed \in {7}
    /\ seed = initial_seed
    /\ avg_wait_times = <<>>
    /\ seeds_used = <<>>
    /\ avg_pc = "trials"
    /\ median = None
    /\ SweepIdle
    /\ RndIdle
    /\ CmdIdle

\* One iteration of the for loop (lines 187-195) whose trial has voters.
Trial ==
    /\ avg_pc = "trials"
    /\ Len(seeds_used) < ntrials
    /\ \E vs \in simulate_results(precinct, args) :
         /\ vs # <<>>
         /\ voters' = vs
         /\ avg_wait_times' = Append(avg_wait_times, avg_wait_time(vs))
    /\ args' = [args EXCEPT !.seed = seed]
    /\ seeds_used' = Append(seeds_used, seed)
    /\ seed' = seed + 1
    /\ UNCHANGED <<precinct, pc, cur_time, booth, assigned>>
    /\ UNCHANGED <<ntrials, initial_seed, avg_pc, median>>
    /\ UNCHANGED sweepVars
    /\ UNCHANGED <<rndVars, cmdVars>>

\* The iteration whose trial has no voter: line 194 divides by len([]) = 0.
TrialRaise ==
    /\ avg_pc = "trials"
    /\ Len(seeds_used) < ntrials
    /\ \E vs \in simulate_results(precinct, args) :
         /\ vs = <<>>
         /\ voters' = vs
    /\ args' = [args EXCEPT !.seed = seed]
    /\ seeds_used' = Append(seeds_used, seed)
    /\ avg_pc' = "ZeroDivisionError"
    /\ UNCHANGED <<precinct, pc, cur_time, booth, assigned>>
    /\ UNCHANGED <<ntrials, initial_seed, seed, avg_wait_times, median>>
    /\ UNCHANGED sweepVars
    /\ UNCHANGED <<rndVars, cmdVars>>

\* Lines 197-199: sort the means and return the one at ntrials // 2.
Median ==
    /\ avg_pc = "trials"
    /\ Len(seeds_used) = ntrials
    /\ median_index(ntrials) \in 1..Len(avg_wait_times)
    /\ avg_wait_times' = sort(avg_wait_times)
    /\ median' = Some(sort(avg_wait_times)[median_index(ntrials)])
    /\ avg_pc' = "return"
    /\ UNCHANGED <<cfgVars, simVars, sweepVars>>
    /\ UNCHANGED <<ntrials, initial_seed, seed, seeds_used>>
    /\ UNCHANGED <<rndVars, cmdVars>>

\* Line 199 on an empty list (ntrials = 0): the index is out of range.
MedianRaise ==
    /\ avg_pc = "trials"
    /\ Len(seeds_used) = ntrials
    /\ median_index(ntrials) \notin 1..Len(avg_wait_times)
    /\ avg_wait_times' = sort(avg_wait_times)
    /\ avg_pc' = "IndexError"
    /\ UNCHANGED <<cfgVars, simVars, sweepVars>>
    /\ UNCHANGED <<ntrials, initial_seed, seed, seeds_used, median>>
    /\ UNCHANGED <<rndVars, cmdVars>>

NextAvg == Trial \/ TrialRaise \/ Median \/ MedianRaise

SpecAvg == InitAvg /\ [][NextAvg]_vars

\* ------------------------------------------- find_percent_split_ticket

\* The targets tried.
Targets == {0, 10, 20, 1000}

InitSweep ==
    /\ precinct \in TrialPrecincts
    /\ args \in {SimArgs(straight_at(0), sd, 0) : sd \in StraightDurations}
    /\ SimIdle
    /\ ntrials = 1
    /\ initial_seed = 0
    /\ seed = 0
    /\ avg_wait_times = <<>>
    /\ seeds_used = <<>>
    /\ avg_pc = "idle"
    /\ median = None
    /\ target_wait_time \in Targets
    /\ split = 0
    /\ calls = <<>>
    /\ avg_wait = None
    /\ any_exceeded = FALSE
    /\ sweep_pc = "sweep"
    /\ found = None
    /\ RndIdle
    /\ CmdIdle

\* The arguments simulate gets at the sweep's point split.
sweep_args(i) ==
    [args EXCEPT !.percent_straight_ticket = straight_at(i),
                 !.seed = initial_seed]

\* One iteration of the sweep (lines 224-229) whose find_avg_wait_time
\* returns: the point is above the target, or it is the last one, or the
\* sweep goes on.
SweepPoint ==
    /\ sweep_pc = "sweep"
    /\ split < SweepPoints
    /\ \E trials \in [1..ntrials ->
                         simulate_results(precinct, sweep_args(split))] :
         LET r == find_avg_wait_time(ntrials, trials)
         IN /\ r.raised = ""
            /\ avg_wait' = r.value
            /\ any_exceeded' =
                 (any_exceeded
                    \/ Val(r.value).num > target_wait_time * Val(r.value).den)
            /\ IF exceeds(Val(r.value), target_wait_time)
               THEN /\ found' = Some([percent |-> split, wait |-> r.value])
                    /\ sweep_pc' = "return"
                    /\ split' = split
               ELSE IF last_point(split)
               THEN /\ found' = Some([percent |-> 10, wait |-> None])
                    /\ sweep_pc' = "return"
                    /\ split' = split
               ELSE /\ found' = found
                    /\ sweep_pc' = sweep_pc
                    /\ split' = split + 1
    /\ args' = sweep_args(split)
    /\ calls' = Append(calls, straight_at(split))
    /\ UNCHANGED <<precinct, simVars, avgVars, target_wait_time>>
    /\ UNCHANGED <<rndVars, cmdVars>>

\* The iteration whose find_avg_wait_time raises: the sweep ends with it.
SweepRaise ==
    /\ sweep_pc = "sweep"
    /\ split < SweepPoints
    /\ \E trials \in [1..ntrials ->
                         simulate_results(precinct, sweep_args(split))] :
         LET r == find_avg_wait_time(ntrials, trials)
         IN /\ r.raised # ""
            /\ sweep_pc' = r.raised
    /\ args' = sweep_args(split)
    /\ calls' = Append(calls, straight_at(split))
    /\ UNCHANGED <<precinct, simVars, avgVars>>
    /\ UNCHANGED <<target_wait_time, split, avg_wait, any_exceeded, found>>
    /\ UNCHANGED <<rndVars, cmdVars>>

NextSweep == SweepPoint \/ SweepRaise

SpecSweep == InitSweep /\ [][NextSweep]_vars

\* ------------------------------------------------------------------ cmd

\* cmd's target-wait-time branch (lines 282-293) on what
\* find_percent_split_ticket returned; it asks for 20 trials, the model for
\* ntrials.

\* percent == 0 (line 286).
percent_is_zero(result) == result.percent = 0

\* Lines 286-289: "Waiting times are always below ...".
CmdBelow ==
    /\ sweep_pc = "return"
    /\ IsNone(printed)
    /\ percent_is_zero(Val(found))
    /\ printed' = Some("always below")
    /\ UNCHANGED <<cfgVars, simVars, avgVars, sweepVars, rndVars>>

\* Lines 290-293 with a wait: "... exceeds average waiting time of ...".
CmdExceeds ==
    /\ sweep_pc = "return"
    /\ IsNone(printed)
    /\ ~percent_is_zero(Val(found))
    /\ ~IsNone(Val(found).wait)
    /\ printed' = Some("exceeds")
    /\ UNCHANGED <<cfgVars, simVars, avgVars, sweepVars, rndVars>>

\* Lines 290-293 without one: "{:.2f}".format(None) raises TypeError and
\* nothing is printed.
CmdRaise ==
    /\ sweep_pc = "return"
    /\ IsNone(printed)
    /\ ~percent_is_zero(Val(found))
    /\ IsNone(Val(found).wait)
    /\ printed' = Some("TypeError")
    /\ UNCHANGED <<cfgVars, simVars, avgVars, sweepVars, rndVars>>

NextCmd == NextSweep \/ CmdBelow \/ CmdExceeds \/ CmdRaise

SpecCmd == InitSweep /\ [][NextCmd]_vars

\* ------------------------------------------ simulate on the random module

\* random.seed(s) that keeps the position the module's stream was at.
random_seed_keeps_position(r, s) == [seed |-> s, pos |-> r.pos]

\* random.seed(s) (line 92): the module's state r becomes the start of the
\* stream of s.
random_seed(r, s) == [seed |-> s, pos |-> 0]

\* The raw value the next random.random() returns in the module's state r,
\* tw the streams of the seeds.
random_random(tw, r) == tw[r.seed][r.pos + 1]

\* The module's state after a draw; a stream starts again at its end.
advance(tw, r) == [r EXCEPT !.pos = (r.pos + 1) % Len(tw[r.seed])]

\* The draw after the classification with a duration drawn for every voter.
after_classify_always_duration(straight) == "duration"

\* The draw after the classification (lines 96-100): the duration's for a
\* split-ticket voter, the gap's for a straight-ticket one.
after_classify(straight) == IF straight THEN "gap" ELSE "duration"

\* A call simulate(a) that has not been entered; entered_at is the module's
\* state the call finds.
NewRun(a) ==
    [args |-> a, pc |-> "idle", voters |-> <<>>, cur_time |-> 0,
     voting_duration |-> None, draws |-> <<>>, entered_at |-> None]

\* What a draw leaves in the log of a call: its kind, the module's state it
\* was taken in and its raw value.
Draw(kind, tw, r) ==
    [kind |-> kind, seed |-> r.seed, pos |-> r.pos,
     value |-> random_random(tw, r)]

\* Where the while loop goes after its condition (line 95).
loop_or_for(p, vs) == IF more_voters(p, vs) THEN "while" ELSE "for"

\* The calls of simulate: two.
Runs == {1, 2}

\* Lines 91-93: the list is emptied, the module seeded, the clock zeroed.
Enter(t) ==
    /\ run[t].pc = "idle"
    /\ rnd' = random_seed(rnd, run[t].args.seed)
    /\ run' = [run EXCEPT ![t].pc = loop_or_for(precinct, <<>>),
                          ![t].entered_at = Some(rnd)]
    /\ UNCHANGED <<twister, cfgVars, simVars, avgVars, sweepVars, cmdVars>>

\* Line 96: the classification draw.
Classify(t) ==
    /\ run[t].pc = "while"
    /\ LET a == run[t].args
           straight == is_straight(random_random(twister, rnd),
                                   a.percent_straight_ticket)
       IN run' = [run EXCEPT
                    ![t].pc = after_classify(straight),
                    ![t].voting_duration =
                        IF straight THEN Some(a.straight_ticket_duration)
                        ELSE None,
                    ![t].draws = Append(@, Draw("classify", twister, rnd))]
    /\ rnd' = advance(twister, rnd)
    /\ UNCHANGED <<twister, cfgVars, simVars, avgVars, sweepVars, cmdVars>>

\* Line 99: the duration draw of a split-ticket voter.
DrawDuration(t) ==
    /\ run[t].pc = "duration"
    /\ run' = [run EXCEPT
                 ![t].pc = "gap",
                 ![t].voting_duration =
                     Some(expovariate(precinct.voting_duration_rate,
                                      random_random(twister, rnd))),
                 ![t].draws = Append(@, Draw("duration", twister, rnd))]
    /\ rnd' = advance(twister, rnd)
    /\ UNCHANGED <<twister, cfgVars, simVars, avgVars, sweepVars, cmdVars>>

\* Lines 100-105: the gap draw; the voter is recorded, or the loop breaks.
DrawGap(t) ==
    /\ run[t].pc = "gap"
    /\ LET arrival == run[t].cur_time
                        + expovariate(precinct.arrival_rate,
                                      random_random(twister, rnd))
           vs == Append(run[t].voters,
                        Voter(arrival, Val(run[t].voting_duration)))
       IN run' = [run EXCEPT
                    ![t].cur_time = arrival,
                    ![t].voters =
                        IF arrival > precinct.minutes_open THEN @ ELSE vs,
                    ![t].pc =
                        IF arrival > precinct.minutes_open THEN "for"
                        ELSE loop_or_for(precinct, vs),
                    ![t].draws = Append(@, Draw("gap", twister, rnd))]
    /\ rnd' = advance(twister, rnd)
    /\ UNCHANGED <<twister, cfgVars, simVars, avgVars, sweepVars, cmdVars>>

\* Lines 107-117: the pool, the for loop and the return; nothing in them
\* is shared with another call.
Finish(t) ==
    /\ run[t].pc = "for"
    /\ run' = [run EXCEPT
                 ![t].pc = "return",
                 ![t].voters =
                     assign(@, VotingBooths(precinct.num_booths), 0)]
    /\ UNCHANGED <<twister, rnd, cfgVars, simVars, avgVars, sweepVars, cmdVars>>

\* A step of the call t.
Step(t) ==
    Enter(t) \/ Classify(t) \/ DrawDuration(t) \/ DrawGap(t) \/ Finish(t)

\* A random.random() of the caller between two calls of simulate.
OtherDraw ==
    /\ run[1].pc = "return"
    /\ run[2].pc = "idle"
    /\ rnd' = advance(twister, rnd)
    /\ UNCHANGED <<twister, run, cfgVars, simVars, avgVars, sweepVars, cmdVars>>

\* The percentages of the successive calls: half and all straight-ticket.
SeededPercents == {5, 10}

\* Two calls of simulate one after the other with the same arguments, the
\* caller drawing in between.
InitSeeded ==
    /\ precinct \in TrialPrecincts
    /\ args \in {SimArgs(pct, sd, 0) :
                   pct \in SeededPercents, sd \in StraightDurations}
    /\ SimIdle
    /\ AvgIdle
    /\ SweepIdle
    /\ CmdIdle
    /\ twister \in [{0} -> Streams(precinct)]
    /\ rnd = [seed |-> 0, pos |-> 0]
    /\ run = [t \in Runs |-> NewRun(args)]

\* The second call is made when the first has returned.
EnterInOrder(t) ==
    /\ t = 2 => run[1].pc = "return"
    /\ Enter(t)

NextSeeded ==
    \/ \E t \in Runs :
         \/ EnterInOrder(t)
         \/ Classify(t)
         \/ DrawDuration(t)
         \/ DrawGap(t)
         \/ Finish(t)
    \/ OtherDraw

SpecSeeded == InitSeeded /\ [][NextSeeded]_vars

\* The precincts of the interleaved calls: one booth, one voter at most.
InterleavedPrecincts == {Precinct(1, 1, 1, ar, 1) : ar \in {1, 2}}

\* Two calls of simulate with the seeds 0 and 1 whose steps interleave, as
\* those of two threads do.
InitInterleaved ==
    /\ precinct \in InterleavedPrecincts
    /\ args \in {SimArgs(pct, sd, 0) :
                   pct \in Percents, sd \in StraightDurations}
    /\ SimIdle
    /\ AvgIdle
    /\ SweepIdle
    /\ CmdIdle
    /\ twister \in [{0, 1} -> Streams(precinct)]
    /\ rnd = [seed |-> 0, pos |-> 0]
    /\ run = [t \in Runs |-> NewRun([args EXCEPT !.seed = t - 1])]

NextInterleaved == \E t \in Runs : Step(t)

SpecInterleaved == InitInterleaved /\ [][NextInterleaved]_vars

\* ------------------------------------------------------- simulate: claims

\* The voters that have been given a booth.
Served == {i \in 1..Len(voters) : ~IsNone(voters[i].start_time)}

\* The voters in service at time t: start_time <= t < end_time.
InService(t) ==
    {i \in Served : Val(voters[i].start_time) <= t /\ t < Val(voters[i].end_time)}

\* The instants at which the number of voters in service can rise or fall.
Instants ==
    {Val(voters[i].start_time) : i \in Served}
        \cup {Val(voters[i].end_time) : i \in Served}
        \cup {voters[i].arrival_time : i \in 1..Len(voters)}

\* C1: at no time are more than num_booths voters in service: for every
\* instant t, the voters with start_time <= t < end_time number at most
\* num_booths (num_booths >= 1).  The number in service changes only at a
\* start or an end, so these instants decide it for every t.
C1_CapacityBound ==
    \A t \in Instants : Cardinality(InService(t)) <= precinct.num_booths

\* C1's case: the run is over, every booth was taken at some instant and a
\* voter who had arrived by then was kept waiting.
C1_Witness ==
    /\ pc = "return"
    /\ \E t \in Instants :
         /\ Cardinality(InService(t)) = precinct.num_booths
         /\ \E i \in Served : /\ voters[i].arrival_time <= t
                              /\ t < Val(voters[i].start_time)

\* C2: every voter given a booth has start_time >= arrival_time and
\* end_time = start_time + voting_duration, in either branch.
C2_Causality ==
    \A i \in Served :
        /\ Val(voters[i].start_time) >= voters[i].arrival_time
        /\ Val(voters[i].end_time)
             = Val(voters[i].start_time) + voters[i].voting_duration

\* C2's case: the run is over; one voter took a free booth on arrival,
\* another found the pool full and started later than it arrived, and a
\* third found it full with a booth already vacated.
C2_Witness ==
    /\ pc = "return"
    /\ Len(voters) > precinct.num_booths
    /\ \E i \in Served : /\ i > precinct.num_booths
                         /\ Val(voters[i].start_time) > voters[i].arrival_time
    /\ \E i \in Served : /\ i > precinct.num_booths
                         /\ Val(voters[i].start_time) = voters[i].arrival_time
                         /\ voters[i].voting_duration > 0

\* C3: while voters are fed to the pool it holds at most num_booths
\* free-times, and after k voters exactly min(num_booths, k).
C3_PoolSize ==
    ~IsNone(booth) =>
        /\ Len(Val(booth).booths) <= precinct.num_booths
        /\ Len(Val(booth).booths)
             = (IF assigned < precinct.num_booths THEN assigned
                ELSE precinct.num_booths)

\* C3's case: more voters than booths have been assigned.
C3_Witness ==
    /\ ~IsNone(booth)
    /\ assigned > precinct.num_booths
    /\ Len(Val(booth).booths) = precinct.num_booths

\* C4: generation stops when the clock passes minutes_open or when
\* max_num_voters voters are recorded: no recorded voter arrives after
\* closing (the candidate that would is dropped), the list never holds more
\* than max_num_voters, and max_num_voters = 0 gives the empty list.
C4_GenerationStops ==
    /\ Len(voters) <= precinct.max_num_voters
    /\ \A i \in 1..Len(voters) :
           voters[i].arrival_time <= precinct.minutes_open
    /\ cur_time > precinct.minutes_open => pc # "generate"
    /\ pc # "generate" =>
           \/ cur_time > precinct.minutes_open
           \/ Len(voters) = precinct.max_num_voters
    /\ precinct.max_num_voters = 0 => voters = <<>>

\* C4's case: the run is over, it was cut short by a candidate who would
\* have arrived after closing, and that candidate is not in the list.
C4_Witness ==
    /\ pc = "return"
    /\ cur_time > precinct.minutes_open
    /\ voters # <<>>
    /\ Len(voters) < precinct.max_num_voters
    /\ voters[Len(voters)].arrival_time < cur_time

\* C5: the arrival times are non-decreasing in list order and each lies in
\* [0, minutes_open].
C5_MonotonicArrivals ==
    /\ \A i \in 1..Len(voters) :
           /\ 0 <= voters[i].arrival_time
           /\ voters[i].arrival_time <= precinct.minutes_open
    /\ \A i \in 1..Len(voters) : \A j \in i..Len(voters) :
           voters[i].arrival_time <= voters[j].arrival_time

\* C5's case: the run is over with two voters arriving together, a later
\* one, and one arriving at the closing minute.
C5_Witness ==
    /\ pc = "return"
    /\ \E i \in 1..Len(voters) : \E j \in 1..Len(voters) :
         /\ i < j
         /\ voters[i].arrival_time = voters[j].arrival_time
    /\ \E i \in 1..Len(voters) :
         /\ voters[i].arrival_time = precinct.minutes_open
         /\ voters[i].arrival_time > voters[1].arrival_time

\* C15, in every state: the while loop has run at most max_num_voters
\* iterations (one for each voter recorded and one for a candidate that
\* broke the loop), it is left once the clock is past minutes_open, and the
\* for loop, one voter behind the other, is never blocked: the step for the
\* next voter can be taken, its put finding the pool not full and its get
\* finding it not empty.
C15_State ==
    /\ Len(voters)
         + (IF cur_time > precinct.minutes_open THEN 1 ELSE 0)
         <= precinct.max_num_voters
    /\ cur_time > precinct.minutes_open => pc # "generate"
    /\ assigned <= Len(voters)
    /\ (pc = "assign" /\ assigned < Len(voters)) => ENABLED AssignVoter
    /\ pc = "return" => assigned = Len(voters)

\* C15, in every step: the clock never goes back, and a step of the for loop
\* deals with exactly one voter.
C15_Step ==
    /\ cur_time' >= cur_time
    /\ (pc = "assign" /\ pc' = "assign") => assigned' = assigned + 1
    /\ pc' = "return" => assigned' = assigned

\* C15: every run of simulate terminates: it reaches its return, after at
\* most max_num_voters iterations of the while loop, which ends as soon as
\* the clock, which never decreases, is past minutes_open, and after one
\* step of the for loop per voter, none of which blocks on the pool.
C15_Terminates ==
    /\ <>(pc = "return")
    /\ []C15_State
    /\ [][C15_Step]_vars

\* C15's case: a run has returned whose while loop was ended by the clock
\* and whose for loop took a booth's free-time out of a full pool.
C15_Witness ==
    /\ pc = "return"
    /\ cur_time > precinct.minutes_open
    /\ assigned = Len(voters)
    /\ assigned > precinct.num_booths

\* The reference for C16: named booths, free[b] the time booth b is free
\* from (0, the opening, before its first voter).  The voters from the k-th
\* on, in arrival order, each take the booth that is free earliest and start
\* at the later of their arrival and that time.
RECURSIVE NamedBooths(_, _, _)
NamedBooths(vs, free, k) ==
    IF k = Len(vs) THEN <<>>
    ELSE LET b == CHOOSE c \in DOMAIN free :
                      \A e \in DOMAIN free : free[c] <= free[e]
             start == IF vs[k + 1].arrival_time >= free[b]
                      THEN vs[k + 1].arrival_time ELSE free[b]
             end == start + vs[k + 1].voting_duration
         IN <<[start_time |-> start, end_time |-> end, booth |-> b]>>
              \o NamedBooths(vs, [free EXCEPT ![b] = end], k + 1)

\* The reference's times for the voters generated.
Reference == NamedBooths(voters, [b \in 1..precinct.num_booths |-> 0], 0)

\* C16: the start_time and end_time simulate gives every voter are those of
\* num_booths named booths, each voter in arrival order taking the booth
\* that becomes free earliest and starting at max(arrival_time, that
\* booth's free-time).
C16_NamedBoothsEquivalent ==
    \A i \in Served :
        /\ Val(voters[i].start_time) = Reference[i].start_time
        /\ Val(voters[i].end_time) = Reference[i].end_time

\* C16's case: a run with two booths has returned, and a voter who found
\* both taken waited for the second one, which was vacated first.
C16_Witness ==
    /\ pc = "return"
    /\ precinct.num_booths = 2
    /\ Len(voters) = 3
    /\ Reference[3].booth = 2
    /\ Val(voters[3].start_time) > voters[3].arrival_time
    /\ Val(voters[2].end_time) < Val(voters[1].end_time)

\* The voters before the i-th who are in a booth at time t.
EarlierInService(i, t) == {j \in InService(t) : j < i}

\* C17: a voter starts at its arrival unless, at every instant from its
\* arrival up to its start, all num_booths booths are occupied by voters who
\* arrived before it: no voter waits while a booth is idle.  The occupation
\* changes only at a start or an end, so these instants decide it.
C17_NoIdleWait ==
    \A i \in Served :
        /\ Val(voters[i].start_time) >= voters[i].arrival_time
        /\ Val(voters[i].start_time) > voters[i].arrival_time =>
             \A t \in Instants :
                 (voters[i].arrival_time <= t
                    /\ t < Val(voters[i].start_time)) =>
                     Cardinality(EarlierInService(i, t)) = precinct.num_booths

\* C17's case: a run has returned in which a voter waited while a booth
\* passed to a voter who had arrived before it and had waited too.
C17_Witness ==
    /\ pc = "return"
    /\ \E i \in Served :
         /\ Val(voters[i].start_time) > voters[i].arrival_time
         /\ \E j \in Served :
              /\ j < i
              /\ voters[j].arrival_time < voters[i].arrival_time
              /\ voters[i].arrival_time < Val(voters[j].start_time)
              /\ Val(voters[j].start_time) < Val(voters[i].start_time)

\* C18: service is first come, first served: start_time is non-decreasing
\* in arrival order, for any number of booths.
C18_FirstComeFirstServed ==
    \A i \in Served : \A j \in Served :
        i < j => Val(voters[i].start_time) <= Val(voters[j].start_time)

\* C18's case: a run with two booths has returned three voters; the second
\* left before the first, and the third, arriving before that, started after
\* both.
C18_Witness ==
    /\ pc = "return"
    /\ precinct.num_booths = 2
    /\ Len(voters) = 3
    /\ Val(voters[2].end_time) < Val(voters[1].end_time)
    /\ voters[3].arrival_time < Val(voters[2].end_time)
    /\ Val(voters[3].start_time) > Val(voters[2].start_time)

\* C19, in every state: the voters the for loop has not reached have
\* start_time and end_time unset, the others have both set.
C19_State ==
    \A i \in 1..Len(voters) :
        /\ i > assigned =>
             IsNone(voters[i].start_time) /\ IsNone(voters[i].end_time)
        /\ i <= assigned =>
             ~IsNone(voters[i].start_time) /\ ~IsNone(voters[i].end_time)

\* C19, in every step: the list keeps its voters in their places, with
\* their arrival_time and voting_duration; a voter whose times are set is
\* never changed again; a step of the for loop changes one voter, the next,
\* and leaves the length of the list; a new voter has its times unset.
C19_Step ==
    /\ Len(voters') >= Len(voters)
    /\ \A i \in 1..Len(voters) :
         /\ voters'[i].arrival_time = voters[i].arrival_time
         /\ voters'[i].voting_duration = voters[i].voting_duration
         /\ ~IsNone(voters[i].start_time) => voters'[i] = voters[i]
         /\ voters'[i] # voters[i] =>
              /\ pc = "assign"
              /\ i = assigned + 1
              /\ assigned' = i
    /\ pc = "assign" => Len(voters') = Len(voters)
    /\ \A i \in (Len(voters) + 1)..Len(voters') :
         IsNone(voters'[i].start_time) /\ IsNone(voters'[i].end_time)

\* C19: a voter's start_time and end_time are unset from its creation until
\* it is given a booth, it is changed exactly once, by that, and the for
\* loop changes no arrival_time or voting_duration and neither the length
\* nor the order of the list.
C19_MutatedOnce == []C19_State /\ [][C19_Step]_vars

\* C19's case: the for loop is half way: a voter has its times set, the
\* next, created with it, still has them unset.
C19_Witness ==
    /\ pc = "assign"
    /\ assigned >= 1
    /\ assigned < Len(voters)
    /\ ~IsNone(voters[assigned].end_time)
    /\ IsNone(voters[assigned + 1].start_time)

\* ------------------------------------------- find_avg_wait_time: claims

\* How many of the means xs are below m, and how many are not above it.
CountBelow(xs, m) == Cardinality({i \in 1..Len(xs) : less(xs[i], m)})

CountUpTo(xs, m) == Cardinality({i \in 1..Len(xs) : ~less(m, xs[i])})

\* How often the mean m occurs in xs.
CountOf(xs, m) == Cardinality({i \in 1..Len(xs) : xs[i] = m})

\* The sum of start_time - arrival_time over the latest trial's voters.
RECURSIVE TotalWait(_)
TotalWait(k) ==
    IF k = 0 THEN 0
    ELSE TotalWait(k - 1)
           + (Val(voters[k].start_time) - voters[k].arrival_time)

\* C8, in every state: simulate has been called once for each of the seeds
\* initial_seed, initial_seed + 1, ... so far; the mean recorded for the
\* latest trial is the mean of start_time - arrival_time over its voters;
\* and what is returned, for ntrials >= 1 trials, is the element at index
\* ntrials // 2 of the ascending list of the means: fewer than or exactly
\* ntrials // 2 means are below it and more than ntrials // 2 are not above.
C8_State ==
    /\ seeds_used = [i \in 1..Len(seeds_used) |-> initial_seed + i - 1]
    /\ Len(seeds_used) <= ntrials
    /\ (avg_pc = "trials" /\ avg_wait_times # <<>>) =>
         /\ Len(avg_wait_times) = Len(seeds_used)
         /\ voters # <<>>
         /\ avg_wait_times[Len(avg_wait_times)].num * Len(voters)
              = avg_wait_times[Len(avg_wait_times)].den * TotalWait(Len(voters))
    /\ avg_pc = "return" =>
         /\ ntrials >= 1
         /\ Len(seeds_used) = ntrials
         /\ Len(avg_wait_times) = ntrials
         /\ ~IsNone(median)
         /\ CountOf(avg_wait_times, Val(median)) >= 1
         /\ CountBelow(avg_wait_times, Val(median)) <= ntrials \div 2
         /\ CountUpTo(avg_wait_times, Val(median)) > ntrials \div 2

\* C8, in every step: a recorded mean is never changed, and sorting keeps
\* every mean as often as it was recorded.
C8_Step ==
    /\ avg_pc' = "trials" =>
         /\ Len(avg_wait_times') >= Len(avg_wait_times)
         /\ \A i \in 1..Len(avg_wait_times) :
                avg_wait_times'[i] = avg_wait_times[i]
    /\ avg_pc' = "return" =>
         \A i \in 1..Len(avg_wait_times) :
             CountOf(avg_wait_times', avg_wait_times[i])
               = CountOf(avg_wait_times, avg_wait_times[i])

\* C8: for ntrials >= 1, find_avg_wait_time runs simulate once per seed
\* initial_seed .. initial_seed + ntrials - 1, takes each trial's mean wait,
\* and returns the element at index ntrials // 2 of the sorted means.
C8_MedianOfTrialMeans == []C8_State /\ [][C8_Step]_vars

\* C8's case: an even number of trials with different means has returned,
\* and the median is the upper of the two middle means.
C8_Witness ==
    /\ avg_pc = "return"
    /\ ntrials = 2
    /\ less(avg_wait_times[1], avg_wait_times[2])
    /\ median = Some(avg_wait_times[2])

\* C9: a trial with no voters ends find_avg_wait_time with an explicit
\* empty-trial error, never with a division by zero.
C9_EmptyTrialSurfaced ==
    (seeds_used # <<>> /\ voters = <<>>) => avg_pc = "EmptyTrialError"

\* ------------------------------------ find_percent_split_ticket: claims

\* C6: the points are evaluated in the order 10, 9, ..., 0 tenths of
\* straight-ticket voters; while the sweep goes on, the latest point's median
\* is not above the target (a median equal to it does not stop the sweep);
\* and a result with a wait is that of the latest point evaluated, 1 minus
\* its straight-ticket fraction, its median strictly above the target, with
\* no point evaluated after it.
C6_FirstExceedance ==
    /\ Len(calls) <= 11
    /\ calls = [i \in 1..Len(calls) |-> 11 - i]
    /\ sweep_pc = "sweep" =>
         /\ Len(calls) = split
         /\ calls # <<>> =>
              Val(avg_wait).num <= target_wait_time * Val(avg_wait).den
    /\ (sweep_pc = "return" /\ ~IsNone(Val(found).wait)) =>
         /\ Val(found).percent = 10 - calls[Len(calls)]
         /\ Val(found).wait = avg_wait
         /\ Val(avg_wait).num > target_wait_time * Val(avg_wait).den

\* C6's case: the sweep has returned a wait at a point after the first, the
\* points before it having been evaluated and passed.
C6_Witness ==
    /\ sweep_pc = "return"
    /\ ~IsNone(Val(found).wait)
    /\ Val(found).percent >= 2
    /\ target_wait_time > 0

FollowedBy(t, k) ==
    IF k < Len(run[t].draws) THEN run[t].draws[k + 1].kind ELSE run[t].pc

\* How many draws of a kind the call t has taken.
DrawsOf(t, kind) ==
    Cardinality({k \in 1..Len(run[t].draws) : run[t].draws[k].kind = kind})

\* C11: with percent_straight_ticket 0 every classification draw, whatever
\* its value in [0,1), sends the voter to the split-ticket branch (a duration
\* draw follows), and with percent_straight_ticket 1 every one sends the
\* voter to the straight-ticket branch (the gap draw follows).
C11_PercentHonored ==
    \A t \in Runs : \A k \in 1..Len(run[t].draws) :
        run[t].draws[k].kind = "classify" =>
            /\ run[t].args.percent_straight_ticket = 0 =>
                   FollowedBy(t, k) = "duration"
            /\ run[t].args.percent_straight_ticket = 10 =>
                   FollowedBy(t, k) = "gap"

\* C12: two calls of simulate with different seeds whose steps interleave
\* return what they return when run one after the other: each the list
\* simulate builds from the stream of its own seed.
C12_InterleavingInvisible ==
    \A t \in Runs :
        run[t].pc = "return" =>
            run[t].voters
              = simulate(precinct, run[t].args, twister[run[t].args.seed])

\* C13: two successive calls of simulate with the same precinct, percentage,
\* duration and seed return the same list of voters (the same length and the
\* same four times at every position), whatever was drawn in between.
C13_Deterministic ==
    (run[1].pc = "return" /\ run[2].pc = "return") =>
        run[1].voters = run[2].voters

\* C13's case: both calls have returned two voters, one of them split-ticket
\* and one kept waiting, and the second call was entered with the module's
\* stream at another position than the first.
C13_Witness ==
    /\ run[1].pc = "return"
    /\ run[2].pc = "return"
    /\ Len(run[2].voters) = 2
    /\ \E i \in 1..2 :
         run[2].voters[i].voting_duration # args.straight_ticket_duration
    /\ \E i \in 1..2 :
         Val(run[2].voters[i].start_time) > run[2].voters[i].arrival_time
    /\ run[2].entered_at # run[1].entered_at

\* C14 as stated: every candidate voter takes three draws, the
\* classification's, the duration's and the gap's in this order, from the
\* stream of the call's seed with no draw in between.
C14_ThreeDrawsPerVoter ==
    \A t \in Runs : \A k \in 1..Len(run[t].draws) :
        /\ run[t].draws[k].kind
             = <<"classify", "duration", "gap">>[((k - 1) % 3) + 1]
        /\ run[t].draws[k].seed = run[t].args.seed
        /\ run[t].draws[k].pos = k - 1

\* C14, amended: every candidate voter's draws are the classification's,
\* then the duration's if and only if the voter is classified split-ticket,
\* then the gap's: three draws for a split-ticket candidate and two for a
\* straight-ticket one, all from the stream of the call's seed at successive
\* positions from its start, one gap draw for every candidate.
C14_DrawOrder ==
    \A t \in Runs :
        /\ \A k \in 1..Len(run[t].draws) :
             LET d == run[t].draws[k]
             IN /\ d.seed = run[t].args.seed
                /\ d.pos = k - 1
                /\ k = 1 => d.kind = "classify"
                /\ d.kind = "classify" =>
                     FollowedBy(t, k)
                       = (IF is_straight(d.value,
                                         run[t].args.percent_straight_ticket)
                          THEN "gap" ELSE "duration")
                /\ d.kind = "duration" =>
                     /\ FollowedBy(t, k) = "gap"
                     /\ run[t].draws[k - 1].kind = "classify"
                /\ d.kind = "gap" =>
                     /\ FollowedBy(t, k) \in {"classify", "while", "for", "return"}
                     /\ FollowedBy(t, k) = "classify" => run[t].draws[k - 1].kind # "gap"
        /\ run[t].pc \in {"while", "for", "return"} =>
             DrawsOf(t, "gap")
               = Len(run[t].voters)
                   + (IF run[t].cur_time > precinct.minutes_open THEN 1 ELSE 0)

\* C14's case: a call has returned after a straight-ticket candidate's two
\* draws and a split-ticket candidate's three.
C14_Witness ==
    \E t \in Runs :
        /\ run[t].pc = "return"
        /\ Len(run[t].draws) = 5
        /\ DrawsOf(t, "duration") = 1
        /\ DrawsOf(t, "gap") = 2

\* ---------------------------------------------------------- cmd: claims

\* C20: cmd prints the "always below" message exactly when no point of the
\* sweep was above the target, and the "exceeds" message, with the wait,
\* exactly when one was.
C20_MessageMatchesResult ==
    ~IsNone(printed) =>
        /\ printed = Some("always below") <=> ~any_exceeded
        /\ printed = Some("exceeds") <=> any_exceeded

\* --------------------------------------------- configuration: claims

\* The configurations the interface allows: booths and rates positive, no
\* negative duration.
ValidConfig ==
    /\ precinct.num_booths > 0
    /\ precinct.arrival_rate > 0
    /\ precinct.voting_duration_rate > 0
    /\ args.straight_ticket_duration >= 0

\* C10: a configuration with no booth, a rate that is not positive or a
\* negative duration is rejected before any voter is generated or assigned:
\* simulate never runs to completion and returns voters for it.
C10_ConfigRejected ==
    ~ValidConfig => ~(pc = "return" /\ voters # <<>>)

====
